---- MODULE Spec2Model ----
(***************************************************************************)
(* Model of auto_ssl.py: SSLCertificateManager, the batch job that decides *)
(* per domain whether a certificate must be (re)issued, drives the DNS-01  *)
(* challenge through the DNS provider and acme.sh, uploads the certificate *)
(* to the CDN and records the new expiry date in cert_records.json.        *)
(*                                                                         *)
(* Text is modelled as a sequence of one-character strings.  The character *)
(* "_" abbreviates the label "_acme-challenge".  Time is counted in ticks, *)
(* TicksPerDay ticks to the day.                                           *)
(***************************************************************************)
EXTENDS Integers, Sequences, FiniteSets, TLC

VARIABLES
    config_file,    \* what main() finds as config.json
    domains,        \* config['domains']
    renewal_cfg,    \* config['renewal_days_before_expiry'], if present
    cert_records,   \* self.cert_records (in memory)
    file,           \* content of cert_records.json
    artifacts,      \* domains whose fullchain.cer and key both exist
    dns,            \* TXT records held by the DNS provider
    next_id,        \* next RecordId the provider assigns
    now,            \* datetime.now(), in ticks
    ticks,          \* clock steps taken so far
    runs,           \* number of the current run of the job
    cycles,         \* process_domain cycles started so far, over all runs
    pc,             \* position of the running process
    idx,            \* position of the for loop of run()
    success_count,
    fail_count,
    processed,      \* outcomes of the cycles of this run, in order
    last_run,       \* outcomes of the cycles of the run before this one
    exit_code,      \* exit status of the process, once it has ended
    cur,            \* locals of the cycle in progress (or just finished)
    calls,          \* external calls of that cycle, in order
    before          \* record store and provider at the start of that cycle

vars == <<config_file, domains, renewal_cfg, cert_records, file, artifacts, dns,
          next_id, now, ticks, runs, cycles, pc, idx, success_count, fail_count,
          processed, last_run, exit_code, cur, calls, before>>

-----------------------------------------------------------------------------
(* Bounds of the model *)

MaxDomains == 2
MaxRuns == 2
MaxCycles == 2
MaxTicks == 1
TicksPerDay == 2

(* Program constants *)

ValidityDays == 90
DefaultRenewalDays == 30

-----------------------------------------------------------------------------
(* Text *)

Dot == "."
AcmeLabel == "_"

RECURSIVE SplitAcc(_, _, _)
SplitAcc(s, sep, acc) ==
    IF s = << >> THEN <<acc>>
    ELSE IF Head(s) = sep THEN <<acc>> \o SplitAcc(Tail(s), sep, << >>)
    ELSE SplitAcc(Tail(s), sep, Append(acc, Head(s)))

\* str.split(sep) for a one-character separator
Split(s, sep) == SplitAcc(s, sep, << >>)

RECURSIVE Join(_, _)
\* sep.join(parts)
Join(parts, sep) ==
    IF parts = << >> THEN << >>
    ELSE IF Len(parts) = 1 THEN parts[1]
    ELSE parts[1] \o <<sep>> \o Join(Tail(parts), sep)

StartsWith(s, p) == Len(p) <= Len(s) /\ SubSeq(s, 1, Len(p)) = p

EndsWith(s, p) == Len(p) <= Len(s) /\ SubSeq(s, Len(s) - Len(p) + 1, Len(s)) = p

\* old in s
Contains(s, old) ==
    \E i \in 1..(Len(s) - Len(old) + 1) : SubSeq(s, i, i + Len(old) - 1) = old

RECURSIVE Remove(_, _)
\* s.replace(old, "") for a non-empty old
Remove(s, old) ==
    IF s = << >> THEN << >>
    ELSE IF StartsWith(s, old) THEN Remove(SubSeq(s, Len(old) + 1, Len(s)), old)
    ELSE <<Head(s)>> \o Remove(Tail(s), old)

-----------------------------------------------------------------------------
(* Domain names *)

DomA == <<"a", ".", "e", ".", "c">>
DomB == <<"a", "b", ".", "e", ".", "c">>
AllDomains == {DomA, DomB}

get_root_domain(domain) ==
    LET parts == Split(domain, Dot)
    IN  IF Len(parts) >= 2
        THEN Join(SubSeq(parts, Len(parts) - 1, Len(parts)), Dot)
        ELSE domain

\* the relative record name add_dns_txt_record derives
record_name_of(domain) ==
    LET root == get_root_domain(domain)
        n1 == Remove(<<AcmeLabel, Dot>> \o domain, <<Dot>> \o root)
    IN  IF EndsWith(n1, root) THEN SubSeq(n1, 1, Len(n1) - Len(root) - 1) ELSE n1

-----------------------------------------------------------------------------
(* Certificate record store *)

\* datetime.isoformat(): the date part and the time-of-day part
isoformat(t) == [kind |-> "str", date |-> t \div TicksPerDay, time |-> t % TicksPerDay]

NoneValue == [kind |-> "none", date |-> 0, time |-> 0]
EmptyString == [kind |-> "str", date |-> 0, time |-> -1]
BadString == [kind |-> "str", date |-> 0, time |-> TicksPerDay]

\* datetime.fromisoformat(s) returns a value (it raises otherwise)
IsoParses(s) == s.kind = "str" /\ s.time >= 0 /\ s.time < TicksPerDay

fromisoformat(s) == s.date * TicksPerDay + s.time

\* "if not expiry_date_str"
Falsy(s) == s.kind = "none" \/ s = EmptyString

\* timedelta.days: whole days, rounded towards minus infinity
TimedeltaDays(delta) == delta \div TicksPerDay

\* self.config.get('renewal_days_before_expiry', 30)
threshold_days ==
    IF renewal_cfg.present THEN renewal_cfg.value ELSE DefaultRenewalDays

NoRecords == << >>

\* a file that json.load rejects (truncated, half-written)
CorruptFile == [ok |-> FALSE, data |-> NoRecords]

\* _load_cert_records: a missing or unreadable file is an empty store
load_cert_records(f) == IF f.ok THEN f.data ELSE NoRecords

\* dict item assignment: records[domain] = rec
DictSet(records, domain, rec) ==
    [k \in DOMAIN records \cup {domain} |-> IF k = domain THEN rec ELSE records[k]]

\* the entry of a domain in a store, for comparing stores entry by entry
Absent == [expiry_date |-> NoneValue, updated_at |-> NoneValue, status |-> "absent"]
Entry(records, domain) ==
    IF domain \in DOMAIN records THEN records[domain] ELSE Absent

\* mutant: the threshold comparison is strict
check_cert_expiry_Strict(records, domain, t) ==
    IF domain \notin DOMAIN records THEN TRUE
    ELSE LET expiry_date_str == records[domain].expiry_date
         IN  IF Falsy(expiry_date_str) THEN TRUE
             ELSE IF ~IsoParses(expiry_date_str) THEN TRUE
             ELSE TimedeltaDays(fromisoformat(expiry_date_str) - t) < threshold_days

check_cert_expiry(records, domain, t) ==
    IF domain \notin DOMAIN records THEN TRUE
    ELSE LET expiry_date_str == records[domain].expiry_date
         IN  IF Falsy(expiry_date_str) THEN TRUE
             ELSE IF ~IsoParses(expiry_date_str) THEN TRUE
             ELSE LET days_remaining ==
                          TimedeltaDays(fromisoformat(expiry_date_str) - t)
                  IN  days_remaining <= threshold_days

\* mutant: the expiry date is set from the renewal window, not the validity
new_record_ShortValidity(t) ==
    [expiry_date |-> isoformat(t + DefaultRenewalDays * TicksPerDay),
     updated_at  |-> isoformat(t),
     status      |-> "active"]

\* the record update_cert_record stores at time t
new_record(t) ==
    [expiry_date |-> isoformat(t + ValidityDays * TicksPerDay),
     updated_at  |-> isoformat(t),
     status      |-> "active"]

has_active_record(records, domain) ==
    domain \in DOMAIN records /\ records[domain].status = "active"

-----------------------------------------------------------------------------
(* acme.sh output and _extract_txt_value *)

Quote == "'"
DQuote == "\""
Space == " "
Equals == "="
TxtMarkers == {"T", "t"}    \* "TXT value" and its lower-case spelling

NoValue == [found |-> FALSE, value |-> << >>]
Value(v) == [found |-> TRUE, value |-> v]

HasTxtMarker(line) == \E i \in 1..Len(line) : line[i] \in TxtMarkers

RECURSIVE LStrip(_, _)
LStrip(s, chars) ==
    IF s # << >> /\ Head(s) \in chars THEN LStrip(Tail(s), chars) ELSE s

RECURSIVE RStrip(_, _)
RStrip(s, chars) ==
    IF s # << >> /\ s[Len(s)] \in chars
    THEN RStrip(SubSeq(s, 1, Len(s) - 1), chars) ELSE s

\* str.strip(chars)
Strip(s, chars) == RStrip(LStrip(s, chars), chars)

RECURSIVE QuotedScan(_)
\* first loop of _extract_txt_value
QuotedScan(lines) ==
    IF lines = << >> THEN [hit |-> FALSE, value |-> << >>]
    ELSE LET line == Head(lines)
             sq == Split(line, Quote)
             dq == Split(line, DQuote)
         IN  IF HasTxtMarker(line) /\ Len(sq) >= 2 THEN [hit |-> TRUE, value |-> sq[2]]
             ELSE IF HasTxtMarker(line) /\ Len(dq) >= 2 THEN [hit |-> TRUE, value |-> dq[2]]
             ELSE QuotedScan(Tail(lines))

RECURSIVE AssignScan(_)
\* second loop of _extract_txt_value
AssignScan(lines) ==
    IF lines = << >> THEN NoValue
    ELSE LET line == Head(lines)
             parts == Split(line, Equals)
             value == IF Len(parts) >= 2
                      THEN Strip(Strip(parts[2], {Space}), {Quote, DQuote})
                      ELSE << >>
         IN  IF Contains(line, <<AcmeLabel>>) /\ Contains(line, <<Equals>>) /\ value # << >>
             THEN Value(value)
             ELSE AssignScan(Tail(lines))

extract_txt_value(output) ==
    LET q == QuotedScan(output)
    IN  IF q.hit THEN Value(q.value) ELSE AssignScan(output)

\* mutant: only None counts as no value
NoTxtValue_OnlyNone(r) == ~r.found

\* "if not txt_value"
NoTxtValue(r) == ~r.found \/ r.value = << >>

\* what a reader finds in a line of the output of acme.sh: a marker with a
\* delimiter after it, and the text that follows the delimiter
Delimiters == {Quote, DQuote, Equals}

MarkerLine(line) ==
    \/ HasTxtMarker(line) /\ (Contains(line, <<Quote>>) \/ Contains(line, <<DQuote>>))
    \/ Contains(line, <<AcmeLabel>>) /\ Contains(line, <<Equals>>)

EmptyToken(line) ==
    LET first == CHOOSE i \in 1..Len(line) :
                     /\ line[i] \in Delimiters
                     /\ \A j \in 1..(i - 1) : line[j] \notin Delimiters
    IN  \A i \in (first + 1)..Len(line) : line[i] \in Delimiters \cup {Space}

\* "none": no line carries a marker; "empty": the marked lines carry no token
OutputKind(output) ==
    LET marked == {i \in 1..Len(output) : MarkerLine(output[i])}
    IN  IF marked = {} THEN "none"
        ELSE IF \A i \in marked : EmptyToken(output[i]) THEN "empty"
        ELSE "token"

AcmeOutputs ==
    { << <<"x">>, <<"T", Space, Quote, "x", Quote>> >>,
      << <<"t", DQuote, "x", DQuote>> >>,
      << <<"T", Space, "x">>, <<AcmeLabel, Equals, Space, Quote, "x", Quote>> >>,
      << <<"t", Quote, Quote>> >>,
      << <<"x", "y">> >>,
      << <<AcmeLabel, Equals, Quote, Quote>> >> }

-----------------------------------------------------------------------------
(* DNS provider (Alibaba Cloud DNS): TXT records, each with its RecordId *)

NoId == 0

\* DescribeDomainRecords with RRKeyWord: every record of the domain whose RR
\* contains the keyword
KeywordMatches(records, root, rr) ==
    {r \in records : r.root = root /\ Contains(r.rr, rr)}

\* UpdateDomainRecord(RecordId, RR, Type, Value)
ProviderUpdate(records, id, rr, value) ==
    {IF r.id = id THEN [r EXCEPT !.rr = rr, !.value = value] ELSE r : r \in records}

\* AddDomainRecord(DomainName, RR, Type, Value), assigning RecordId id
ProviderAdd(records, id, root, rr, value) ==
    records \cup {[id |-> id, root |-> root, rr |-> rr, value |-> value]}

\* DeleteDomainRecord(RecordId)
ProviderDelete(records, id) == {r \in records : r.id # id}

-----------------------------------------------------------------------------
(* One cycle of process_domain: its locals and its external calls *)

NoCycle ==
    [domain |-> << >>, need |-> FALSE, checked_at |-> 0, cert_exists |-> FALSE,
     force_renew |-> FALSE, issue |-> "none", output_kind |-> "unseen",
     first_returncode |-> 0, txt_value |-> << >>,
     existing_record_id |-> NoId, record_id |-> NoId, returncode |-> 0,
     publish |-> "none", outcome |-> "none"]

Call(op, id, ok, arg) == [op |-> op, id |-> id, ok |-> ok, arg |-> arg]

Snapshot == [records |-> cert_records, file |-> file, dns |-> dns]

RunVars == <<idx, success_count, fail_count, processed>>
Config == <<config_file, domains, renewal_cfg>>
Clock == <<now, ticks, runs, cycles>>
Job == <<last_run, exit_code>>

\* the cycle goes on at position p with locals c
Goto(p, c) ==
    /\ pc' = p
    /\ cur' = c
    /\ UNCHANGED RunVars

\* what is remembered of a finished cycle: its domain, how run() counted it,
\* and whether it issued a certificate that it then failed to publish
Outcome(c, outcome) ==
    [domain |-> c.domain, outcome |-> outcome,
     unpublished |-> c.issue = "true" /\ c.publish = "false"]

\* mutant: an exception of process_domain is not caught by the loop of run()
Return_Propagates(outcome, c) ==
    IF outcome = "exception"
    THEN /\ pc' = "done"
         /\ cur' = [c EXCEPT !.outcome = outcome]
         /\ UNCHANGED RunVars
    ELSE /\ pc' = "loop"
         /\ cur' = [c EXCEPT !.outcome = outcome]
         /\ idx' = idx + 1
         /\ success_count' = IF outcome = "success" THEN success_count + 1 ELSE success_count
         /\ fail_count' = IF outcome = "success" THEN fail_count ELSE fail_count + 1
         /\ processed' = Append(processed, Outcome(c, outcome))

\* process_domain returns True or False, or raises: back in the loop of run()
Return(outcome, c) ==
    /\ pc' = "loop"
    /\ cur' = [c EXCEPT !.outcome = outcome]
    /\ idx' = idx + 1
    /\ success_count' = IF outcome = "success" THEN success_count + 1 ELSE success_count
    /\ fail_count' = IF outcome = "success" THEN fail_count ELSE fail_count + 1
    /\ processed' = Append(processed, Outcome(c, outcome))

\* issue_certificate returns False: process_domain returns False
IssueFails(c) == Return("failure", [c EXCEPT !.issue = "false"])

\* mutant: main() ends with status 0 however the job ended
exit_status_AlwaysZero(ending) == 0

\* main(): the exit status of the process, by the way the job ended
exit_status(ending) ==
    CASE ending = "returned" -> 0
      [] ending = "sys_exit_1" -> 1
      [] ending = "exception" -> 1

\* the process ends
Exit(ending) ==
    /\ pc' = "done"
    /\ exit_code' = <<exit_status(ending)>>

\* main(): SSLCertificateManager() loads config.json and cert_records.json
Construct ==
    /\ pc = "boot"
    /\ \/ \* _load_config: no config.json, sys.exit(1)
          /\ config_file = "missing"
          /\ Exit("sys_exit_1")
          /\ UNCHANGED <<cert_records, before>>
       \/ \* the configuration lacks the credentials: __init__ raises
          /\ config_file = "no_credentials"
          /\ Exit("exception")
          /\ UNCHANGED <<cert_records, before>>
       \/ /\ config_file \in {"ok", "bad_domains"}
          /\ pc' = "start"
          /\ cert_records' = load_cert_records(file)
          /\ before' = [records |-> cert_records', file |-> file, dns |-> dns]
          /\ UNCHANGED exit_code
    /\ UNCHANGED <<Config, file, artifacts, dns, next_id, Clock, last_run, RunVars,
                   cur, calls>>

\* run(): "if not domains: return", else the counters are set up
RunStart ==
    /\ pc = "start"
    /\ IF config_file = "bad_domains"
       THEN \* 'domains' is not a list: the for statement raises out of run()
            Exit("exception")
       ELSE IF domains = << >>
            THEN Exit("returned")
            ELSE pc' = "loop" /\ UNCHANGED exit_code
    /\ UNCHANGED <<Config, cert_records, file, artifacts, dns, next_id, Clock,
                   last_run, RunVars, cur, calls, before>>

\* run(): the for loop is exhausted, the tally is logged, main() returns
RunFinish ==
    /\ pc = "loop"
    /\ idx > Len(domains)
    /\ Exit("returned")
    /\ UNCHANGED <<Config, cert_records, file, artifacts, dns, next_id, Clock,
                   last_run, RunVars, cur, calls, before>>

\* mutant: the result of the expiry check is ignored
BranchAfterCheck_IgnoresNeed(need, cert_exists, active) ==
    IF cert_exists
    THEN IF active THEN "force_renew" ELSE "upload"
    ELSE "issue"

\* mutant: existing artifacts always lead to a forced renewal
BranchAfterCheck_AlwaysRenews(need, cert_exists, active) ==
    IF ~need THEN "return"
    ELSE IF cert_exists THEN "force_renew" ELSE "issue"

\* which step follows the expiry check of process_domain
BranchAfterCheck(need, cert_exists, active) ==
    IF ~need THEN "return"
    ELSE IF cert_exists
         THEN IF active THEN "force_renew" ELSE "upload"
         ELSE "issue"

\* process_domain, up to its first external call
ProcessDomainBegin ==
    /\ pc = "loop"
    /\ idx <= Len(domains)
    /\ LET domain == domains[idx]
           need == check_cert_expiry(cert_records, domain, now)
           cert_exists == domain \in artifacts
           branch == BranchAfterCheck(need, cert_exists,
                                      has_active_record(cert_records, domain))
           c == [NoCycle EXCEPT !.domain = domain, !.need = need,
                                !.checked_at = now, !.cert_exists = cert_exists,
                                !.outcome = "running"]
       IN  /\ calls' = << >>
           /\ before' = Snapshot
           /\ CASE branch = "return" -> Return("success", c)
                [] branch = "force_renew" ->
                       Goto("acme1", [c EXCEPT !.force_renew = TRUE, !.issue = "running"])
                [] branch = "issue" -> Goto("acme1", [c EXCEPT !.issue = "running"])
                [] branch = "upload" -> Goto("upload", c)
    /\ cycles' = cycles + 1
    /\ UNCHANGED <<Config, cert_records, file, artifacts, dns, next_id, now, ticks, runs,
                   last_run, exit_code>>

\* mutant: the first run of acme.sh is always made in issue mode
AcmeMode_AlwaysIssue(cert_exists, force_renew) == "issue"

\* the mode of the first acme.sh invocation
AcmeMode(cert_exists, force_renew) ==
    IF cert_exists /\ force_renew THEN "renew_force" ELSE "issue"

\* issue_certificate: first acme.sh run and _extract_txt_value
Acme1 ==
    /\ pc = "acme1"
    /\ LET mode == AcmeMode(cur.domain \in artifacts, cur.force_renew)
       IN  \/ \* subprocess.run raises
              /\ calls' = Append(calls, Call("acme1", NoId, FALSE, mode))
              /\ IssueFails(cur)
           \/ \* it returns with some exit code and some output
              \E output \in AcmeOutputs, returncode \in {0, 1} :
                LET txt_value == extract_txt_value(output)
                    c == [cur EXCEPT !.output_kind = OutputKind(output),
                                     !.first_returncode = returncode]
                IN  /\ calls' = Append(calls, Call("acme1", NoId, TRUE, mode))
                    /\ IF NoTxtValue(txt_value)
                       THEN IssueFails(c)
                       ELSE Goto("dns_find", [c EXCEPT !.txt_value = txt_value.value])
    /\ UNCHANGED <<Config, cert_records, file, artifacts, dns, next_id, Clock,
                   Job, before>>

\* mutant: the record found is ignored and a new one is created
AfterFind_AlwaysCreates(existing_record_id) == "dns_create"

\* what add_dns_txt_record does with the result of _find_dns_record
AfterFind(existing_record_id) ==
    IF existing_record_id # NoId THEN "dns_update" ELSE "dns_create"

\* add_dns_txt_record: _find_dns_record
DnsFind ==
    /\ pc = "dns_find"
    /\ LET root == get_root_domain(cur.domain)
           rr == record_name_of(cur.domain)
           found == KeywordMatches(dns, root, rr)
       IN  \/ \* the query raises: _find_dns_record returns None
              /\ calls' = Append(calls, Call("dns_query", NoId, FALSE, "raise"))
              /\ Goto(AfterFind(NoId), cur)
           \/ \* no record: None
              /\ found = {}
              /\ calls' = Append(calls, Call("dns_query", NoId, TRUE, "none"))
              /\ Goto(AfterFind(NoId), cur)
           \/ \* records[0] of the answer, in the provider's order
              \E r \in found :
                /\ calls' = Append(calls, Call("dns_query", r.id, TRUE, "found"))
                /\ Goto(AfterFind(r.id), [cur EXCEPT !.existing_record_id = r.id])
    /\ UNCHANGED <<Config, cert_records, file, artifacts, dns, next_id, Clock,
                   Job, before>>

\* add_dns_txt_record: UpdateDomainRecord on the record found
DnsUpdate ==
    /\ pc = "dns_update"
    /\ LET id == cur.existing_record_id
       IN  \/ /\ calls' = Append(calls, Call("dns_update", id, TRUE, "ok"))
              /\ dns' = ProviderUpdate(dns, id, record_name_of(cur.domain), cur.txt_value)
              /\ Goto("acme2", [cur EXCEPT !.record_id = id])
           \/ \* the call raises: add_dns_txt_record returns None
              /\ calls' = Append(calls, Call("dns_update", id, FALSE, "raise"))
              /\ dns' = dns
              /\ IssueFails(cur)
    /\ UNCHANGED <<Config, cert_records, file, artifacts, next_id, Clock, Job, before>>

\* mutant: add_dns_txt_record returns right after the create
AfterCreate_NoWait == "acme2"

\* add_dns_txt_record: what follows a create whose RecordId was read
AfterCreate == "dns_wait"

\* add_dns_txt_record: AddDomainRecord and the parsing of its response
DnsCreate ==
    /\ pc = "dns_create"
    /\ LET root == get_root_domain(cur.domain)
           rr == record_name_of(cur.domain)
       IN  \/ \* created, RecordId read from the response
              /\ calls' = Append(calls, Call("dns_create", next_id, TRUE, "ok"))
              /\ dns' = ProviderAdd(dns, next_id, root, rr, cur.txt_value)
              /\ next_id' = next_id + 1
              /\ Goto(AfterCreate, [cur EXCEPT !.record_id = next_id])
           \/ \* created, but the response does not parse: returns None
              /\ calls' = Append(calls, Call("dns_create", next_id, TRUE, "bad_response"))
              /\ dns' = ProviderAdd(dns, next_id, root, rr, cur.txt_value)
              /\ next_id' = next_id + 1
              /\ IssueFails(cur)
           \/ \* the call raises: returns None
              /\ calls' = Append(calls, Call("dns_create", NoId, FALSE, "raise"))
              /\ UNCHANGED <<dns, next_id>>
              /\ IssueFails(cur)
    /\ UNCHANGED <<Config, cert_records, file, artifacts, Clock, Job, before>>

\* add_dns_txt_record: time.sleep(60) after a create
DnsWait ==
    /\ pc = "dns_wait"
    /\ calls' = Append(calls, Call("sleep", NoId, TRUE, "ok"))
    /\ Goto("acme2", cur)
    /\ UNCHANGED <<Config, cert_records, file, artifacts, dns, next_id, Clock,
                   Job, before>>

\* issue_certificate: second acme.sh run (--renew)
Acme2 ==
    /\ pc = "acme2"
    /\ \/ \* subprocess.run raises: caught, issue_certificate returns False
          /\ calls' = Append(calls, Call("acme2", NoId, FALSE, "raise"))
          /\ UNCHANGED artifacts
          /\ IssueFails(cur)
       \/ \* exit code 0: the certificate and key are on disk
          /\ calls' = Append(calls, Call("acme2", NoId, TRUE, "exit0"))
          /\ artifacts' = artifacts \cup {cur.domain}
          /\ Goto("dns_delete", [cur EXCEPT !.returncode = 0])
       \/ \* another exit code
          /\ calls' = Append(calls, Call("acme2", NoId, TRUE, "exit1"))
          /\ UNCHANGED artifacts
          /\ Goto("dns_delete", [cur EXCEPT !.returncode = 1])
    /\ UNCHANGED <<Config, cert_records, file, dns, next_id, Clock, Job, before>>

\* mutant: issuance needs both invocations of acme.sh to exit with 0
IssueResult_BothZero(first_returncode, returncode) ==
    first_returncode = 0 /\ returncode = 0

\* the value issue_certificate returns after the cleanup, given the exit
\* codes of its two invocations of acme.sh
IssueResult(first_returncode, returncode) == returncode = 0

\* mutant: delete_dns_txt_record lets the exception of the call through
delete_raises_Uncaught(ok) == ~ok

\* delete_dns_txt_record: whether a failed call makes the method raise
delete_raises(ok) == FALSE

\* issue_certificate: delete_dns_txt_record, then the verdict
DnsDelete ==
    /\ pc = "dns_delete"
    /\ \E ok \in BOOLEAN :
          /\ calls' = Append(calls, Call("dns_delete", cur.record_id, ok,
                                         IF ok THEN "ok" ELSE "raise"))
          /\ dns' = IF ok THEN ProviderDelete(dns, cur.record_id) ELSE dns
          /\ IF delete_raises(ok)
             THEN \* caught by the except clause of issue_certificate
                  IssueFails(cur)
             ELSE IF IssueResult(cur.first_returncode, cur.returncode)
                  THEN Goto("upload", [cur EXCEPT !.issue = "true"])
                  ELSE IssueFails(cur)
    /\ UNCHANGED <<Config, cert_records, file, artifacts, next_id, Clock, Job, before>>

PublishFails(c) == Return("failure", [c EXCEPT !.publish = "false"])

\* upload_cert_to_qiniu: read the files, POST /sslcert
Upload ==
    /\ pc = "upload"
    /\ \/ \* reading the certificate files raises
          /\ calls' = calls
          /\ PublishFails(cur)
       \/ /\ cur.domain \in artifacts
          /\ \/ /\ calls' = Append(calls, Call("cdn_upload", NoId, FALSE, "raise"))
                /\ PublishFails(cur)
             \/ /\ calls' = Append(calls, Call("cdn_upload", NoId, FALSE, "status"))
                /\ PublishFails(cur)
             \/ /\ calls' = Append(calls, Call("cdn_upload", NoId, TRUE, "200"))
                /\ Goto("cdn_bind", [cur EXCEPT !.publish = "running"])
    /\ UNCHANGED <<Config, cert_records, file, artifacts, dns, next_id, Clock,
                   Job, before>>

\* update_cdn_ssl_config: PUT /domain/<domain>/httpsconf
CdnBind ==
    /\ pc = "cdn_bind"
    /\ \/ /\ calls' = Append(calls, Call("cdn_bind", NoId, FALSE, "raise"))
          /\ PublishFails(cur)
       \/ /\ calls' = Append(calls, Call("cdn_bind", NoId, FALSE, "status"))
          /\ PublishFails(cur)
       \/ /\ calls' = Append(calls, Call("cdn_bind", NoId, TRUE, "200"))
          /\ Goto("record", [cur EXCEPT !.publish = "true"])
    /\ UNCHANGED <<Config, cert_records, file, artifacts, dns, next_id, Clock,
                   Job, before>>

\* update_cert_record and _save_cert_records, then "return True"
UpdateCertRecord ==
    /\ pc = "record"
    /\ cert_records' = DictSet(cert_records, cur.domain, new_record(now))
    /\ \/ \* the document is written
          /\ file' = [ok |-> TRUE, data |-> cert_records']
          /\ calls' = Append(calls, Call("save", NoId, TRUE, "ok"))
          /\ Return("success", cur)
       \/ \* open(..., 'w') raises: the file is as it was
          /\ file' = file
          /\ calls' = Append(calls, Call("save", NoId, FALSE, "open"))
          /\ Return("exception", cur)
       \/ \* json.dump raises after open() truncated the file
          /\ file' = CorruptFile
          /\ calls' = Append(calls, Call("save", NoId, FALSE, "write"))
          /\ Return("exception", cur)
    /\ UNCHANGED <<Config, artifacts, dns, next_id, Clock, Job, before>>

\* the clock moves on before a cycle starts
Tick ==
    /\ pc = "loop"
    /\ idx <= Len(domains)
    /\ ticks < MaxTicks
    /\ now' = now + 1
    /\ ticks' = ticks + 1
    /\ UNCHANGED <<Config, cert_records, file, artifacts, dns, next_id, runs, cycles, pc,
                   last_run, exit_code, RunVars, cur, calls, before>>

\* the job is started again: a new process, nothing in memory
NewRun ==
    /\ pc = "done"
    /\ runs < MaxRuns
    /\ cycles + Len(domains) <= MaxCycles
    /\ runs' = runs + 1
    /\ last_run' = processed
    /\ exit_code' = << >>
    /\ cert_records' = NoRecords
    /\ pc' = "boot"
    /\ idx' = 1
    /\ success_count' = 0
    /\ fail_count' = 0
    /\ processed' = << >>
    /\ cur' = NoCycle
    /\ calls' = << >>
    /\ before' = [records |-> NoRecords, file |-> file, dns |-> dns]
    /\ UNCHANGED <<Config, file, artifacts, dns, next_id, now, ticks, cycles>>

-----------------------------------------------------------------------------
(* Initial states: the process is started *)

RECURSIVE SeqsUpTo(_, _)
SeqsUpTo(S, n) ==
    IF n = 0 THEN {<< >>}
    ELSE LET shorter == SeqsUpTo(S, n - 1)
         IN  shorter \cup {Append(q, x) : q \in shorter, x \in S}

RenewalConfigs ==
    {[present |-> FALSE, value |-> 0], [present |-> TRUE, value |-> 88],
     [present |-> TRUE, value |-> 89]}

StoredRecord(expiry, status) ==
    [expiry_date |-> expiry, updated_at |-> isoformat(0 - TicksPerDay), status |-> status]

\* records that a store file written a day before time 0 may hold, for a
\* threshold of th days
InitRecords(th) ==
    {StoredRecord(isoformat(th * TicksPerDay + k), "active") :
         k \in {0, 1, TicksPerDay}}
    \cup {StoredRecord(isoformat(th * TicksPerDay - 1), "unknown"),
          StoredRecord(NoneValue, "active"),
          StoredRecord(EmptyString, "active"),
          StoredRecord(BadString, "active")}

InitStores(th) ==
    {NoRecords}
    \cup {[d \in {DomA} |-> r] : r \in InitRecords(th)}
    \cup {[d \in AllDomains |->
              IF d = DomA THEN StoredRecord(isoformat(th * TicksPerDay), "active")
              ELSE StoredRecord(isoformat((th + 1) * TicksPerDay + 1), "active")]}

InitFiles(th) == {CorruptFile} \cup {[ok |-> TRUE, data |-> s] : s \in InitStores(th)}

InitDns ==
    { {},
      {[id |-> 1, root |-> get_root_domain(DomB), rr |-> record_name_of(DomB),
        value |-> <<"y">>]} }

ConfigFiles == {"ok", "missing", "no_credentials", "bad_domains"}

Init ==
    /\ config_file \in ConfigFiles
    /\ IF config_file = "ok"
       THEN /\ domains \in SeqsUpTo(AllDomains, MaxDomains)
            /\ renewal_cfg \in RenewalConfigs
       ELSE \* nothing is read from the configuration
            /\ domains = << >>
            /\ renewal_cfg = [present |-> FALSE, value |-> 0]
    /\ file \in InitFiles(threshold_days)
    /\ cert_records = NoRecords
    /\ artifacts \in {{}, AllDomains}
    /\ dns \in InitDns
    /\ next_id = Cardinality(dns) + 1
    /\ now = 0
    /\ ticks = 0
    /\ runs = 1
    /\ cycles = 0
    /\ pc = "boot"
    /\ idx = 1
    /\ success_count = 0
    /\ fail_count = 0
    /\ processed = << >>
    /\ last_run = << >>
    /\ exit_code = << >>
    /\ cur = NoCycle
    /\ calls = << >>
    /\ before = Snapshot

Next ==
    \/ Construct
    \/ RunStart
    \/ RunFinish
    \/ ProcessDomainBegin
    \/ Acme1
    \/ DnsFind
    \/ DnsUpdate
    \/ DnsCreate
    \/ DnsWait
    \/ Acme2
    \/ DnsDelete
    \/ Upload
    \/ CdnBind
    \/ UpdateCertRecord
    \/ Tick
    \/ NewRun

Spec == Init /\ [][Next]_vars

\* how far the process is from the end of the cycle it is in
Rank(p) ==
    CASE p = "boot" -> 14
      [] p = "start" -> 13
      [] p = "loop" -> 12
      [] p = "acme1" -> 11
      [] p = "dns_find" -> 10
      [] p \in {"dns_update", "dns_create"} -> 9
      [] p = "dns_wait" -> 8
      [] p = "acme2" -> 7
      [] p = "dns_delete" -> 6
      [] p = "upload" -> 5
      [] p = "cdn_bind" -> 4
      [] p = "record" -> 3
      [] p = "done" -> 0

\* a bound on the number of steps the runs can still take
StepsLeft ==
    LET perCycle == 15
        thisRun == IF pc = "done" THEN 0
                   ELSE (Len(domains) + 1 - idx) * perCycle + Rank(pc)
    IN  (MaxRuns - runs) * perCycle * (MaxDomains + 2) + thisRun + (MaxTicks - ticks)

-----------------------------------------------------------------------------
(* Vocabulary of the properties *)

\* a cycle of process_domain has started: cur, calls and before describe it
CycleSeen == cur.outcome # "none"
CycleEnded == cur.outcome \in {"success", "failure", "exception"}

CallsOf(ops) == {i \in 1..Len(calls) : calls[i].op \in ops}

AcmeOps == {"acme1", "acme2"}
DnsOps == {"dns_query", "dns_create", "dns_update", "dns_delete"}
CdnOps == {"cdn_upload", "cdn_bind"}

\* the entry of a domain as the store file holds it
FileEntry(f, domain) ==
    IF f.ok THEN Entry(f.data, domain) ELSE [Absent EXCEPT !.status = "unreadable"]

EntryChanged ==
    \/ Entry(cert_records, cur.domain) # Entry(before.records, cur.domain)
    \/ FileEntry(file, cur.domain) # FileEntry(before.file, cur.domain)

\* the record store holds the record of a successful cycle, in memory and on disk
RecordWritten ==
    /\ Entry(cert_records, cur.domain) = new_record(cur.checked_at)
    /\ FileEntry(file, cur.domain) = new_record(cur.checked_at)

-----------------------------------------------------------------------------
(* C1: the record-store entry of a domain is created or overwritten only  *)
(* at the end of a cycle whose publish succeeded and whose issuance        *)
(* succeeded or was skipped; a cycle that ends in failure leaves the entry *)
(* of its domain, in memory and in the file, as it was before the cycle.   *)
C1_EntryWrittenOnlyBySuccess ==
    CycleSeen =>
        /\ EntryChanged =>
               /\ cur.outcome = "success"
               /\ cur.publish = "true"
               /\ cur.issue \in {"true", "none"}
        /\ cur.outcome \in {"failure", "exception"} => ~EntryChanged

(* C2: when check_cert_expiry is false, process_domain returns success    *)
(* without any call to acme.sh, the DNS provider or the CDN, and the       *)
(* record store (memory and file) is unchanged.                            *)
C2_NoRenewalIsNoOp ==
    (CycleSeen /\ ~cur.need) =>
        /\ cur.outcome = "success"
        /\ calls = << >>
        /\ cert_records = before.records
        /\ file = before.file
        /\ dns = before.dns

C2_Witness ==
    /\ CycleEnded
    /\ ~cur.need
    /\ cur.domain \in DOMAIN before.records
    /\ cur.outcome = "success"

\* the cycle found artifacts but no active record
SkipCase ==
    /\ CycleSeen
    /\ cur.need
    /\ cur.cert_exists
    /\ ~has_active_record(before.records, cur.domain)

PublishDone == cur.publish = "true" /\ pc # "record"

SaveSucceeded == \E i \in CallsOf({"save"}) : calls[i].ok

(* C3 as stated: with artifacts and no active record the cycle calls       *)
(* neither acme.sh nor the DNS provider, and once publish has succeeded a  *)
(* record is written and the outcome is success.                           *)
C3_SkipThenPublishAlwaysSucceeds ==
    SkipCase =>
        /\ CallsOf(AcmeOps \cup DnsOps) = {}
        /\ cur.issue = "none"
        /\ PublishDone => (cur.outcome = "success" /\ RecordWritten)

(* C3, amended: with artifacts and no active record the cycle calls        *)
(* neither acme.sh nor the DNS provider, its first call is the upload, and *)
(* once publish has succeeded the record is written and the outcome is     *)
(* success if the store was saved; if saving raised, the cycle ends with   *)
(* that exception.                                                         *)
C3_SkipThenPublish ==
    SkipCase =>
        /\ CallsOf(AcmeOps \cup DnsOps) = {}
        /\ cur.issue = "none"
        /\ calls # << >> => calls[1].op = "cdn_upload"
        /\ PublishDone =>
               IF SaveSucceeded
               THEN cur.outcome = "success" /\ RecordWritten
               ELSE cur.outcome = "exception"

C3_Witness ==
    /\ SkipCase
    /\ PublishDone
    /\ cur.outcome = "success"
    /\ RecordWritten

QueryRaised == \E i \in CallsOf({"dns_query"}) : ~calls[i].ok

(* C4: if the record query of the DNS provider raises during challenge     *)
(* setup, nothing is created at the provider, validation is not attempted, *)
(* nothing is published, the cycle fails and the record store is unchanged.*)
C4_QueryErrorFailsTheCycle ==
    (CycleSeen /\ QueryRaised) =>
        /\ CallsOf({"dns_create", "dns_update", "acme2"} \cup CdnOps) = {}
        /\ dns = before.dns
        /\ cur.outcome \in {"running", "failure"}
        /\ ~EntryChanged

IssueReturned == cur.issue \in {"true", "false"}

(* C5: whenever an issuance attempt created or updated a TXT record at the *)
(* provider, a delete request for that record's ID was issued before       *)
(* issue_certificate returned, whatever the outcome.                       *)
C5_ChallengeRecordAlwaysDeleted ==
    IssueReturned =>
        \A i \in CallsOf({"dns_create", "dns_update"}) :
            calls[i].ok =>
                \E j \in CallsOf({"dns_delete"}) : j > i /\ calls[j].id = calls[i].id

SameName(r1, r2) == r1.root = r2.root /\ r1.rr = r2.rr

NameHeld(records, domain) ==
    \E r \in records :
        r.root = get_root_domain(domain) /\ r.rr = record_name_of(domain)

(* C6: the provider never holds two TXT records with the same (root, name) *)
(* and a create call is never issued while a record of that name exists.   *)
C6_AtMostOneRecordPerName ==
    /\ \A r1, r2 \in dns : SameName(r1, r2) => r1 = r2
    /\ CallsOf({"dns_create"}) # {} => ~NameHeld(before.dns, cur.domain)

\* add_dns_txt_record has returned in the cycle that cur describes
UpsertReturned ==
    /\ CallsOf({"dns_query"}) # {}
    /\ pc \notin {"dns_update", "dns_create"}

TheCall(op) == calls[CHOOSE i \in CallsOf({op}) : TRUE]

FreshId(id) == id # NoId /\ \A r \in before.dns : r.id # id

(* C7 as stated: when the query finds a record, exactly one update call    *)
(* with its ID is issued, no create call, and that ID is returned; when it *)
(* finds none, exactly one create call is issued and the new ID returned.  *)
C7_UpsertAlwaysReturnsId ==
    UpsertReturned =>
        /\ TheCall("dns_query").arg = "found" =>
               /\ Cardinality(CallsOf({"dns_update"})) = 1
               /\ CallsOf({"dns_create"}) = {}
               /\ TheCall("dns_update").id = TheCall("dns_query").id
               /\ cur.record_id = TheCall("dns_query").id
        /\ TheCall("dns_query").arg = "none" =>
               /\ Cardinality(CallsOf({"dns_create"})) = 1
               /\ CallsOf({"dns_update"}) = {}
               /\ FreshId(cur.record_id)

(* C7, amended: when the query finds a record, exactly one update call     *)
(* with its ID and the new value is issued, no create call, and that ID is *)
(* returned if the update call succeeds, no ID if it raises; when it finds *)
(* none, exactly one create call and no update call is issued, and the new *)
(* ID is returned if the call succeeds and its response is readable, no ID *)
(* otherwise.                                                              *)
C7_Upsert ==
    UpsertReturned =>
        /\ TheCall("dns_query").arg = "found" =>
               /\ Cardinality(CallsOf({"dns_update"})) = 1
               /\ CallsOf({"dns_create"}) = {}
               /\ TheCall("dns_update").id = TheCall("dns_query").id
               /\ cur.record_id =
                      IF TheCall("dns_update").ok THEN TheCall("dns_query").id ELSE NoId
               /\ pc = "acme2" =>
                      \E r \in dns : /\ r.id = cur.record_id
                                     /\ r.rr = record_name_of(cur.domain)
                                     /\ r.value = cur.txt_value
        /\ TheCall("dns_query").arg = "none" =>
               /\ Cardinality(CallsOf({"dns_create"})) = 1
               /\ CallsOf({"dns_update"}) = {}
               /\ IF TheCall("dns_create").ok /\ TheCall("dns_create").arg = "ok"
                  THEN FreshId(cur.record_id) /\ cur.record_id = TheCall("dns_create").id
                  ELSE cur.record_id = NoId
               /\ pc = "dns_wait" =>
                      \E r \in dns : /\ r.id = cur.record_id
                                     /\ r.rr = record_name_of(cur.domain)
                                     /\ r.value = cur.txt_value

C7_Witness ==
    /\ UpsertReturned
    /\ TheCall("dns_query").arg = "found"
    /\ TheCall("dns_update").ok
    /\ cur.record_id = TheCall("dns_query").id
    /\ cur.outcome = "success"

Successes == {i \in 1..Len(processed) : processed[i].outcome = "success"}

\* the tally of run() agrees with the cycles run so far, in list order
Tally ==
    /\ Len(processed) = idx - 1
    /\ \A i \in 1..Len(processed) : processed[i].domain = domains[i]
    /\ success_count = Cardinality(Successes)
    /\ success_count + fail_count = Len(processed)
    /\ pc = "done" => Len(processed) = Len(domains)

(* C8: run() processes every configured domain exactly once, in list       *)
(* order, and terminates; a failed or raising cycle does not stop the      *)
(* following ones; at the end success_count + fail_count is the number of  *)
(* domains and a domain counts as success exactly when its cycle returned  *)
(* success.                                                                *)
C8_RunProcessesEveryDomain ==
    /\ []Tally
    /\ [](pc = "done" \/ ENABLED Next)
    /\ [](StepsLeft >= 0)
    /\ [][StepsLeft' < StepsLeft]_vars

C8_Witness ==
    /\ pc = "done"
    /\ Len(domains) = 2
    /\ processed[1].outcome = "exception"
    /\ processed[2].outcome = "success"
    /\ success_count = 1
    /\ fail_count = 1

\* the stored expiry date of the domain checked cannot be used
Unusable ==
    \/ cur.domain \notin DOMAIN before.records
    \/ Falsy(before.records[cur.domain].expiry_date)
    \/ ~IsoParses(before.records[cur.domain].expiry_date)

\* ticks from the check to the stored expiry date
Remaining == fromisoformat(before.records[cur.domain].expiry_date) - cur.checked_at

(* C9 as stated: check_cert_expiry is true exactly when there is no        *)
(* record, the expiry date is absent or unparseable, or the time remaining *)
(* is at most thresholdDays; false whenever more than thresholdDays remain.*)
C9_RenewalWithinThreshold ==
    CycleSeen =>
        (cur.need <=> (Unusable \/ Remaining <= threshold_days * TicksPerDay))

(* C9, amended: check_cert_expiry is true exactly when there is no record, *)
(* the expiry date is absent or unparseable, or the whole days remaining   *)
(* (rounded down) are at most thresholdDays, that is when less than        *)
(* thresholdDays + 1 days remain; it is false only when at least           *)
(* thresholdDays + 1 full days remain.                                     *)
C9_RenewalByWholeDays ==
    CycleSeen =>
        (cur.need <=> (Unusable \/ Remaining < (threshold_days + 1) * TicksPerDay))

C9_Witness ==
    /\ CycleSeen
    /\ ~Unusable
    /\ Remaining > threshold_days * TicksPerDay
    /\ cur.need

\* the entry checked was written by update_cert_record at time w
WrittenAt(w) ==
    /\ cur.domain \in DOMAIN before.records
    /\ before.records[cur.domain] = new_record(w)

\* the check ran less than a day after the record was written
CheckedSoonAfterRecord ==
    /\ CycleSeen
    /\ \E w \in 0..cur.checked_at :
           WrittenAt(w) /\ cur.checked_at - w < TicksPerDay

NoOpCycle == ~cur.need /\ cur.outcome = "success" /\ calls = << >>

(* C10 as stated: for every threshold smaller than the 90-day validity, a  *)
(* check that runs less than a day after update_cert_record returns false, *)
(* and the cycle is a no-op.                                               *)
C10_RoundTripBelowValidity ==
    (CheckedSoonAfterRecord /\ threshold_days < ValidityDays) => NoOpCycle

(* C10, amended: for every threshold smaller than the validity minus one   *)
(* day (at most 88), a check that runs less than a day after               *)
(* update_cert_record returns false, and the cycle is a no-op.             *)
C10_RoundTrip ==
    (CheckedSoonAfterRecord /\ threshold_days < ValidityDays - 1) => NoOpCycle

C10_Witness ==
    /\ CheckedSoonAfterRecord
    /\ threshold_days = ValidityDays - 2
    /\ WrittenAt(cur.checked_at - 1)
    /\ Len(processed) = 2
    /\ processed[1].outcome = "success"
    /\ NoOpCycle

-----------------------------------------------------------------------------
(* C11: the store file is replaced atomically: from the start of a cycle   *)
(* on, whatever happens inside a save, the file holds either the complete  *)
(* document it held before the save or the complete document written by    *)
(* the save, never a truncated or half-written document.                   *)
C11_StoreReplacedAtomically ==
    CycleSeen =>
        \/ file = before.file
        \/ file = [ok |-> TRUE,
                   data |-> DictSet(before.records, cur.domain,
                                    new_record(cur.checked_at))]

-----------------------------------------------------------------------------
\* the position in config['domains'] of the cycle that cur describes
CycleIndex == IF cur.outcome = "running" THEN idx ELSE idx - 1

\* that cycle is the first one of its domain in this run
FirstCycleOfDomain == \A j \in 1..(CycleIndex - 1) : domains[j] # cur.domain

\* the last cycle of the domain in the run before issued a certificate and
\* then failed to publish it
LeftUnpublished ==
    \E i \in 1..Len(last_run) :
        /\ last_run[i].domain = cur.domain
        /\ last_run[i].unpublished
        /\ \A j \in (i + 1)..Len(last_run) : last_run[j].domain # cur.domain

(* C12: when a run issued the certificate of a domain and then failed to   *)
(* publish it, the next run goes to publish for that domain again without  *)
(* calling acme.sh, whether or not the domain had an active record.        *)
C12_PublishRetriedWithoutAcme ==
    (CycleSeen /\ FirstCycleOfDomain /\ LeftUnpublished) =>
        /\ CallsOf(AcmeOps) = {}
        /\ cur.need
        /\ cur.issue = "none"

-----------------------------------------------------------------------------
DeleteCalled == CallsOf({"dns_delete"}) # {}
DeleteFailed == \E i \in CallsOf({"dns_delete"}) : ~calls[i].ok

\* issue_certificate returned what the exit code of the second run says
VerdictByExitCode == cur.issue = (IF cur.returncode = 0 THEN "true" ELSE "false")

(* C13: a failure of the delete call never changes the outcome: whether    *)
(* the delete succeeded or raised, issue_certificate returns what the      *)
(* second run of acme.sh says, and a cycle whose validation and publish    *)
(* succeeded ends in success with its record written.                      *)
C13_DeleteNeverChangesOutcome ==
    DeleteCalled =>
        /\ VerdictByExitCode
        /\ (CycleEnded /\ cur.returncode = 0 /\ cur.publish = "true") =>
               (cur.outcome = "success" /\ RecordWritten)

(* C13, amended: whether the delete succeeded or raised, issue_certificate *)
(* returns what the second run of acme.sh says, and the cycle ends in      *)
(* success exactly when validation, publish and the saving of the record   *)
(* store succeeded; its record is then written.                            *)
C13_DeleteFailureIsHarmless ==
    DeleteCalled =>
        /\ VerdictByExitCode
        /\ CycleEnded =>
               /\ cur.outcome = "success" <=>
                      (cur.returncode = 0 /\ cur.publish = "true" /\ SaveSucceeded)
               /\ cur.outcome = "success" => RecordWritten

C13_Witness == DeleteFailed /\ cur.outcome = "success" /\ RecordWritten

-----------------------------------------------------------------------------
\* add_dns_txt_record returned a record ID
UpsertGaveId == cur.record_id # NoId

SecondExit(arg) == \E i \in CallsOf({"acme2"}) : calls[i].arg = arg

(* C14: once the challenge value was extracted and the upsert returned a   *)
(* record ID, issue_certificate returns True exactly when the second run   *)
(* of acme.sh exits with 0, whatever the exit code of the first run; after *)
(* a non-zero exit the cycle fails, the CDN is not called and no record is *)
(* written.                                                                *)
C14_SecondExitCodeDecides ==
    (CycleSeen /\ UpsertGaveId) =>
        /\ IssueReturned => (cur.issue = "true" <=> SecondExit("exit0"))
        /\ SecondExit("exit1") =>
               /\ CallsOf(CdnOps) = {}
               /\ cur.publish = "none"
               /\ ~EntryChanged
               /\ pc # "dns_delete" => cur.outcome = "failure"

C14_Witness ==
    /\ UpsertGaveId
    /\ cur.first_returncode = 1
    /\ SecondExit("exit0")
    /\ cur.issue = "true"

-----------------------------------------------------------------------------
(* C15: when the output of the first run of acme.sh carries no marker, or  *)
(* a marker with an empty token, no challenge value is extracted and the   *)
(* cycle ends in failure without raising: that run is the only external    *)
(* call of the cycle (no DNS call, no second run, no CDN call) and the     *)
(* record store and the provider's records are as before the cycle.        *)
C15_NoChallengeValueFailsQuietly ==
    (CycleSeen /\ cur.output_kind \in {"none", "empty"}) =>
        /\ cur.txt_value = << >>
        /\ cur.issue = "false"
        /\ cur.outcome = "failure"
        /\ Len(calls) = 1
        /\ calls[1].op = "acme1"
        /\ cert_records = before.records
        /\ file = before.file
        /\ dns = before.dns

C15_Witness ==
    /\ cur.output_kind = "none"
    /\ cur.outcome = "failure"
    /\ CallsOf({"acme1"}) # {}

-----------------------------------------------------------------------------
(* C16: the process ends with exit code 0 whenever run() returns, also     *)
(* when domains failed or the list is empty, and with exit code 1 when     *)
(* config.json is missing or an exception leaves __init__ or run(); with a *)
(* missing config.json it ends before any domain is processed, before the  *)
(* record store is read and before any external call.                      *)
C16_ExitCodes ==
    /\ pc # "done" => exit_code = << >>
    /\ pc = "done" =>
           /\ exit_code = <<IF config_file = "ok" THEN 0 ELSE 1>>
           /\ config_file = "missing" =>
                  /\ cycles = 0
                  /\ processed = << >>
                  /\ calls = << >>
                  /\ cert_records = NoRecords

C16_Witness ==
    /\ pc = "done"
    /\ exit_code = <<0>>
    /\ success_count = 0
    /\ fail_count = Len(domains)
    /\ fail_count > 1

-----------------------------------------------------------------------------
SaveFailed == \E i \in CallsOf({"save"}) : ~calls[i].ok

\* the cycle of the same domain just before this one, in this run, ended with
\* the exception of a failed save
SaveFailedEarlierInRun ==
    \E i \in 1..(CycleIndex - 1) :
        /\ processed[i].domain = cur.domain
        /\ processed[i].outcome = "exception"
        /\ \A j \in (i + 1)..(CycleIndex - 1) : processed[j].domain # cur.domain

\* this is the first cycle of the domain in this run, and its last cycle in
\* the run before ended with the exception of a failed save
SaveFailedInLastRun ==
    /\ FirstCycleOfDomain
    /\ \E i \in 1..Len(last_run) :
           /\ last_run[i].domain = cur.domain
           /\ last_run[i].outcome = "exception"
           /\ \A j \in (i + 1)..Len(last_run) : last_run[j].domain # cur.domain

(* C17: when saving the record store fails in update_cert_record, the      *)
(* exception reaches run() and the domain is counted as failed, and the    *)
(* next expiry check of that domain, later in the same run or in the next  *)
(* run, does not answer "no renewal needed" from the record that was not   *)
(* saved.                                                                  *)
C17_UnsavedRecordNeverTrusted ==
    CycleSeen =>
        /\ SaveFailed =>
               /\ cur.outcome = "exception"
               /\ processed[Len(processed)].outcome = "exception"
               /\ fail_count > 0
        /\ (SaveFailedEarlierInRun \/ SaveFailedInLastRun) => cur.need

-----------------------------------------------------------------------------
TxtWrites == {"dns_create", "dns_update"}

(* C18: in an issuance attempt the TXT record is written first, then, if   *)
(* it was created, the propagation wait is completed, then the second run  *)
(* of acme.sh is made, and the delete comes only after that run returned.  *)
C18_ChallengeStepsInOrder ==
    /\ \A i \in CallsOf({"acme2"}) :
           /\ \E w \in 1..(i - 1) : calls[w].op \in TxtWrites /\ calls[w].ok
           /\ \A w \in 1..(i - 1) :
                  calls[w].op = "dns_create" =>
                      \E s \in (w + 1)..(i - 1) : calls[s].op = "sleep"
    /\ \A s \in CallsOf({"sleep"}) : s > 1 /\ calls[s - 1].op = "dns_create"
    /\ \A d \in CallsOf({"dns_delete"}) : d > 1 /\ calls[d - 1].op = "acme2"
    /\ pc = "dns_delete" => calls[Len(calls)].op = "acme2"

C18_Witness ==
    /\ CallsOf({"dns_create"}) # {}
    /\ CallsOf({"sleep"}) # {}
    /\ CallsOf({"acme2"}) # {}
    /\ CallsOf({"dns_delete"}) # {}

-----------------------------------------------------------------------------
(* C19: every first run of acme.sh is made in forced-renewal mode exactly  *)
(* when the certificate and the key of the domain exist at that moment,    *)
(* and in issue mode otherwise.                                            *)
C19_ModeFollowsArtifacts ==
    [][(pc = "acme1" /\ pc' # "acme1") =>
           LET call == calls'[Len(calls')]
           IN  /\ call.op = "acme1"
               /\ call.arg = "renew_force" <=> cur.domain \in artifacts
               /\ call.arg = "issue" <=> cur.domain \notin artifacts]_vars

C19_Witness ==
    /\ CallsOf({"acme1"}) # {}
    /\ TheCall("acme1").arg = "renew_force"
    /\ cur.cert_exists

-----------------------------------------------------------------------------
\* the entry of a domain as _load_cert_records reads it from the store file
LoadedEntry(f, domain) == Entry(load_cert_records(f), domain)

(* C20: a cycle never changes the entry of another domain, and a cycle     *)
(* that does not end in success changes no entry at all: in memory and in  *)
(* the store file, every entry but that of the domain of a successful      *)
(* cycle is what it was when the cycle started.                            *)
C20_OtherEntriesUntouched ==
    CycleSeen =>
        \A d \in AllDomains :
            (d # cur.domain \/ cur.outcome # "success") =>
                /\ Entry(cert_records, d) = Entry(before.records, d)
                /\ LoadedEntry(file, d) = LoadedEntry(before.file, d)

====
